---- MODULE Spec2Model ----
(***************************************************************************)
(* zerofalse: scan orchestration and finding reconciliation.               *)
(*                                                                         *)
(* Strings whose content the code inspects (finding types, languages) are  *)
(* sequences of one-character strings, so that toLowerCase, toUpperCase    *)
(* and includes are computed as the code computes them.  Strings the code  *)
(* only copies are TLA+ strings.  Scores are in hundredths (2.5 is 250).   *)
(***************************************************************************)
EXTENDS Integers, Sequences, FiniteSets, TLC

VARIABLES
    pc,               \* position of the scanCode call in flight
    code,             \* scanCode argument: the lines of the code, <<>> is ""
    language,         \* scanCode argument
    scanId,           \* const scanId of the call in flight
    patternFindings,  \* const patternFindings / mergeFindings argument
    llmResult,        \* const llmResult (analyzeCode's resolved value)
    aiFindings,       \* const aiFindings / mergeFindings argument
    merged,           \* value returned by mergeFindings
    scan,             \* value scanCode resolved to
    escaped,          \* TRUE when scanCode rejected (threw to its caller)
    memoryStore,      \* the scans collection (memoryStore.scans or db "scans")
    nextId            \* source of generateId()

VARIABLES
    llmEnv,           \* provider configuration and process.env keys
    providerIndex,    \* position of analyzeCode's loop over providers
    tried             \* what happened to each provider the loop has passed

VARIABLES
    now,              \* Date.now(), in milliseconds
    tokenCache,       \* const tokenCache = new Map()
    tokenCalls,       \* the getInstallationToken calls made so far
    exchanges,        \* the access tokens GitHub has issued, oldest first
    githubEnv         \* process.env.GITHUB_APP_ID and GITHUB_PRIVATE_KEY

VARIABLES
    req,              \* the webhook request being handled
    hookPc,           \* position of handleGitHubWebhook
    token,            \* const token of handlePullRequest
    files,            \* const files of handlePullRequest
    scanTargets,      \* const scanTargets of handlePullRequest
    fileIndex,        \* position of the loop over scanTargets
    allFindings,      \* let allFindings of handlePullRequest
    maxRiskScore,     \* let maxRiskScore of handlePullRequest
    effects,          \* the outbound calls made so far, in order
    responses,        \* what has been sent on res, in order
    fileScans,        \* the Scans scanCode resolved to for this delivery
    comment           \* the body createPRComment built for the pull request

VARIABLES
    readResult        \* what the read operation called last resolved to

scanVars == <<pc, code, language, scanId, patternFindings, llmResult, aiFindings,
              merged, scan, escaped, memoryStore, nextId>>
llmVars == <<llmEnv, providerIndex, tried>>
tokenVars == <<now, tokenCache, tokenCalls, exchanges, githubEnv>>
hookVars == <<req, hookPc, token, files, scanTargets, fileIndex, allFindings,
              maxRiskScore, effects, responses, fileScans, comment>>

readVars == <<readResult>>

vars == <<scanVars, llmVars, tokenVars, hookVars, readVars>>

-----------------------------------------------------------------------------
(* Bounds of the model *)

MaxLine == 4
MaxFindings == 3
MaxCodeLines == 2
MaxLLMFindings == 1

-----------------------------------------------------------------------------
(* JavaScript values *)

\* the value undefined, where a string of characters is expected
Undefined == <<"<undefined>">>

\* a || b on opaque strings: "" and undefined are falsy
OrElse(a, b) == IF a \in {"", "undefined"} THEN b ELSE a

Upper == <<"A", "B", "C", "D", "E", "F", "G", "H", "I", "J", "K", "L", "M",
           "N", "O", "P", "Q", "R", "S", "T", "U", "V", "W", "X", "Y", "Z">>
Lower == <<"a", "b", "c", "d", "e", "f", "g", "h", "i", "j", "k", "l", "m",
           "n", "o", "p", "q", "r", "s", "t", "u", "v", "w", "x", "y", "z">>

toLowerCase(s) ==
    [i \in 1..Len(s) |->
        IF \E k \in 1..Len(Upper) : Upper[k] = s[i]
        THEN Lower[CHOOSE k \in 1..Len(Upper) : Upper[k] = s[i]]
        ELSE s[i]]

toUpperCase(s) ==
    [i \in 1..Len(s) |->
        IF \E k \in 1..Len(Lower) : Lower[k] = s[i]
        THEN Upper[CHOOSE k \in 1..Len(Lower) : Lower[k] = s[i]]
        ELSE s[i]]

includes(s, sub) ==
    \E i \in 1..(Len(s) - Len(sub) + 1) : SubSeq(s, i, i + Len(sub) - 1) = sub

abs(n) == IF n < 0 THEN -n ELSE n

-----------------------------------------------------------------------------
(* Finding types and the words getBaseType looks for *)

T_RCE == <<"R", "C", "E">>
T_SQL_INJECTION == <<"S", "Q", "L", "_", "I", "N", "J", "E", "C", "T", "I", "O", "N">>
T_SECRET == <<"S", "E", "C", "R", "E", "T">>
T_LOGIC == <<"L", "O", "G", "I", "C">>
T_SqlInjectionRisk == <<"S", "Q", "L", " ", "I", "n", "j", "e", "c", "t", "i", "o", "n", " ", "R", "i", "s", "k">>
T_sql_injection_risk == <<"s", "q", "l", " ", "i", "n", "j", "e", "c", "t", "i", "o", "n", " ", "r", "i", "s", "k">>
T_Logic == <<"L", "o", "g", "i", "c">>

W_execution == <<"e", "x", "e", "c", "u", "t", "i", "o", "n">>
W_eval == <<"e", "v", "a", "l">>
W_rce == <<"r", "c", "e">>
W_injection == <<"i", "n", "j", "e", "c", "t", "i", "o", "n">>
W_sql == <<"s", "q", "l">>
W_secret == <<"s", "e", "c", "r", "e", "t">>
W_password == <<"p", "a", "s", "s", "w", "o", "r", "d">>
W_key == <<"k", "e", "y">>
B_code_exec == <<"c", "o", "d", "e", "_", "e", "x", "e", "c">>
B_sql_inj == <<"s", "q", "l", "_", "i", "n", "j">>
B_credential == <<"c", "r", "e", "d", "e", "n", "t", "i", "a", "l">>

-----------------------------------------------------------------------------
(* mergeFindings *)

\* getBaseType without the toLowerCase call
getBaseType_caseSensitive(type) ==
    LET t == type IN
    IF includes(t, W_execution) \/ includes(t, W_eval) \/ includes(t, W_rce)
         \/ includes(t, W_injection) THEN B_code_exec
    ELSE IF includes(t, W_sql) THEN B_sql_inj
    ELSE IF includes(t, W_secret) \/ includes(t, W_password) \/ includes(t, W_key)
         THEN B_credential
    ELSE t

getBaseType(type) ==
    LET t == toLowerCase(type) IN
    IF includes(t, W_execution) \/ includes(t, W_eval) \/ includes(t, W_rce)
         \/ includes(t, W_injection) THEN B_code_exec
    ELSE IF includes(t, W_sql) THEN B_sql_inj
    ELSE IF includes(t, W_secret) \/ includes(t, W_password) \/ includes(t, W_key)
         THEN B_credential
    ELSE t

\* the callback of aiResults.some: window of one line instead of two
coversFinding_window1(af, pf) ==
    LET isLineMatch == abs(af.line - pf.line) <= 1
        aBase == getBaseType(af.type)
    IN isLineMatch /\ (aBase = getBaseType(pf.type))

\* the callback of aiResults.some: line proximity only
coversFinding_lineOnly(af, pf) ==
    abs(af.line - pf.line) <= 2

\* the callback of aiResults.some: the pattern type compared as it is
coversFinding_rawPattern(af, pf) ==
    LET isLineMatch == abs(af.line - pf.line) <= 2
        aBase == getBaseType(af.type)
    IN isLineMatch /\ (aBase = pf.type)

coversFinding(af, pf) ==
    LET isLineMatch == abs(af.line - pf.line) <= 2
        aBase == getBaseType(af.type)
    IN isLineMatch /\ (aBase = getBaseType(pf.type))

\* aiResults.some(...) from index i on: "true", "false", or "throw" when
\* getBaseType is applied to an undefined type before a match is found
RECURSIVE someCovers(_, _, _)
someCovers(aiResults, pf, i) ==
    IF i > Len(aiResults) THEN "false"
    ELSE IF aiResults[i].type = Undefined THEN "throw"
    ELSE IF coversFinding(aiResults[i], pf) THEN "true"
    ELSE someCovers(aiResults, pf, i + 1)

\* pf with the issue / fix_instruction of the pushed object
pushed(pf) ==
    [pf EXCEPT !.issue = OrElse(pf.description, "Security pattern match detected."),
               !.fix_instruction = OrElse(pf.fix, "Follow secure coding practices.")]

\* the loop over patternResults from index i on, appending to acc
RECURSIVE mergeLoop(_, _, _, _)
mergeLoop(patternResults, aiResults, i, acc) ==
    IF i > Len(patternResults) THEN acc
    ELSE LET pf == patternResults[i] IN
         IF someCovers(aiResults, pf, 1) = "true"
         THEN mergeLoop(patternResults, aiResults, i + 1, acc)
         ELSE mergeLoop(patternResults, aiResults, i + 1, Append(acc, pushed(pf)))

\* s with x placed after every element whose line is not greater
RECURSIVE insertByLine(_, _)
insertByLine(s, x) ==
    IF s = <<>> THEN <<x>>
    ELSE IF s[Len(s)].line - x.line > 0
         THEN Append(insertByLine(SubSeq(s, 1, Len(s) - 1), x), s[Len(s)])
         ELSE Append(s, x)

\* no sort at all
sortByLine_none(s) == s

\* merged.sort((a, b) => a.line - b.line): the sort is stable
RECURSIVE sortByLine(_)
sortByLine(s) ==
    IF s = <<>> THEN <<>>
    ELSE insertByLine(sortByLine(SubSeq(s, 1, Len(s) - 1)), s[Len(s)])

\* TRUE when mergeFindings throws a TypeError (toLowerCase of undefined)
mergeThrows(patternResults, aiResults) ==
    \E i \in 1..Len(patternResults) :
        \/ patternResults[i].type = Undefined
        \/ someCovers(aiResults, patternResults[i], 1) = "throw"

\* the value mergeFindings returns when it does not throw
mergeFindings(patternResults, aiResults) ==
    sortByLine(mergeLoop(patternResults, aiResults, 1, aiResults))

-----------------------------------------------------------------------------
(* Findings *)

\* a finding as quickPatternScan builds it
PatternFinding(type, severity, line) ==
    [type |-> type, severity |-> severity, line |-> line, filename |-> "",
     description |-> "Pattern match detected.",
     fix |-> "Verify user input sanitization or use environment variables for sensitive data.",
     confidence |-> <<80>>,
     issue |-> "undefined", fix_instruction |-> "undefined"]

\* a finding as the LLM prompt asks for it
LLMFinding(type, severity, line) ==
    [type |-> type, severity |-> severity, line |-> line, filename |-> "undefined",
     description |-> "undefined", fix |-> "undefined", confidence |-> <<>>,
     issue |-> "llm issue", fix_instruction |-> "llm fix"]

Lines == 1..MaxLine

\* all sequences over S of length at most n
ListsUpTo(S, n) == UNION {[1..k -> S] : k \in 0..n}

-----------------------------------------------------------------------------
(* quickPatternScan *)

javascript == <<"j", "a", "v", "a", "s", "c", "r", "i", "p", "t">>
typescript == <<"t", "y", "p", "e", "s", "c", "r", "i", "p", "t">>
python == <<"p", "y", "t", "h", "o", "n">>
yaml == <<"y", "a", "m", "l">>
json == <<"j", "s", "o", "n">>
Python == <<"P", "y", "t", "h", "o", "n">>
Null == <<"<null>">>

\* the rule table, in Object.entries order; a line of code is modelled by
\* the set of rule keys one of whose regexes matches it
SECURITY_PATTERNS ==
    << [key |-> "dangerousFunctions", name |-> T_RCE, severity |-> "critical",
        languages |-> {javascript, typescript}],
       [key |-> "hardcodedSecrets", name |-> T_SECRET, severity |-> "critical",
        languages |-> {javascript, typescript, python, yaml, json}],
       [key |-> "sqlInjection", name |-> T_SQL_INJECTION, severity |-> "high",
        languages |-> {javascript, typescript, python}] >>

\* lines.forEach for one rule: one finding per matching line, in line order
RECURSIVE scanLines(_, _, _)
scanLines(pattern, lines, index) ==
    IF index > Len(lines) THEN <<>>
    ELSE (IF pattern.key \in lines[index]
          THEN <<PatternFinding(pattern.name, pattern.severity, index)>>
          ELSE <<>>)
         \o scanLines(pattern, lines, index + 1)

\* the loop over Object.entries(SECURITY_PATTERNS) from rule r on
RECURSIVE scanRules(_, _, _)
scanRules(lines, langKey, r) ==
    IF r > Len(SECURITY_PATTERNS) THEN <<>>
    ELSE (IF langKey \in SECURITY_PATTERNS[r].languages
          THEN scanLines(SECURITY_PATTERNS[r], lines, 1)
          ELSE <<>>)
         \o scanRules(lines, langKey, r + 1)

\* TRUE when quickPatternScan throws (language.toLowerCase() of null)
quickPatternScanThrows(c, lang) == c # <<>> /\ lang = Null

quickPatternScan(c, lang) ==
    IF c = <<>> THEN <<>> ELSE scanRules(c, toLowerCase(lang), 1)

-----------------------------------------------------------------------------
(* analyzeCode *)

\* what JSON.parse of the groq answer can be: riskScore <<>> when the key
\* is missing, findings with isArray FALSE when it is not an array
GroqFail == [ok |-> FALSE, riskScore |-> <<>>,
             findings |-> [isArray |-> FALSE, items |-> <<>>]]

\* x || 0 on an optional number
NumberOrZero(x) == IF x = <<>> THEN 0 ELSE x[1]

LLMNone == [findings |-> <<>>, riskScore |-> 0, provider |-> "none"]

\* providers = ['groq', 'openai']; the openai branch only continues
analyzeCode(groqAvailable, groq) ==
    IF groqAvailable /\ groq.ok
    THEN [riskScore |-> NumberOrZero(groq.riskScore),
          findings |-> IF groq.findings.isArray THEN groq.findings.items ELSE <<>>,
          provider |-> "groq"]
    ELSE LLMNone

-----------------------------------------------------------------------------
(* scanCode *)

\* hashData(code): the digest is a function of the code alone
hashData(c) == <<"sha256", c>>

NoHash == <<>>

\* the object the catch block returns; the keys it does not set are undefined
FailedScan(id) ==
    [id |-> id, filename |-> "undefined", language |-> Undefined,
     codeHash |-> NoHash, findings |-> <<>>, riskScore |-> 0, status |-> "failed"]

\* TRUE when the map over the merged findings throws (toUpperCase of undefined)
displayThrows(fs) == \E i \in 1..Len(fs) : fs[i].type = Undefined

\* .map(f => ({...f, filename: f.filename || filename, type: f.type.toUpperCase()}))
displayFindings(fs, filename) ==
    [i \in 1..Len(fs) |->
        [fs[i] EXCEPT !.filename = OrElse(fs[i].filename, filename),
                      !.type = toUpperCase(fs[i].type)]]

\* the score taken from the LLM whatever the findings are
calibrate_noFloor(findings, llm) == llm.riskScore

\* findings.length === 0 ? 0 : (llmResult?.riskScore || 0)
calibrate(findings, llm) ==
    IF Len(findings) = 0 THEN 0 ELSE llm.riskScore

CompletedScan(id, filename, lang, c, findings, riskScore) ==
    [id |-> id, filename |-> filename, language |-> lang,
     codeHash |-> hashData(c), findings |-> findings, riskScore |-> riskScore,
     status |-> "completed"]

\* inputs of the model
LineShapes == {{}, {"dangerousFunctions"}, {"hardcodedSecrets"}, {"sqlInjection"},
               {"dangerousFunctions", "sqlInjection"}}
Codes == ListsUpTo(LineShapes, MaxCodeLines)
Languages == {javascript, Python, Null}
Filename == "input.js"

\* the LLM reports the first line or one beyond the window of every
\* pattern finding; a finding without type is one the prompt forbids
LLMLines == {1, MaxLine}
LLMFindings ==
    {LLMFinding(T_RCE, "medium", l) : l \in LLMLines}
    \cup {LLMFinding(T_SECRET, "info", l) : l \in LLMLines}
    \cup {LLMFinding(Undefined, "low", l) : l \in LLMLines}
RawScores == {<<>>, <<347>>, <<1200>>, <<-100>>}
GroqAnswers ==
    {GroqFail} \cup
    {[ok |-> TRUE, riskScore |-> r, findings |-> [isArray |-> TRUE, items |-> fs]] :
        r \in RawScores, fs \in ListsUpTo(LLMFindings, MaxLLMFindings)} \cup
    {[ok |-> TRUE, riskScore |-> r,
      findings |-> [isArray |-> FALSE, items |-> <<LLMFinding(T_RCE, "medium", 1)>>]] :
        r \in RawScores}

\* no catch block: the error reaches the caller of scanCode
Catch_rethrow(id) ==
    /\ scan' = scan
    /\ escaped' = TRUE
    /\ pc' = "returned"

\* the catch block of scanCode
Catch(id) ==
    /\ scan' = FailedScan(id)
    /\ escaped' = FALSE
    /\ pc' = "returned"

\* scanCode up to its first await: the empty check and the pattern engine
Call(c, lang) ==
    /\ pc = "idle"
    /\ code' = c
    /\ language' = lang
    /\ scanId' = nextId
    /\ nextId' = nextId + 1
    /\ IF c = <<>> \/ quickPatternScanThrows(c, lang)
       THEN /\ Catch(nextId)
            /\ UNCHANGED patternFindings
       ELSE /\ patternFindings' = quickPatternScan(c, lang)
            /\ pc' = "await-llm"
            /\ UNCHANGED <<scan, escaped>>
    /\ UNCHANGED <<llmResult, aiFindings, merged, memoryStore>>
    /\ UNCHANGED <<llmVars, tokenVars, hookVars, readVars>>

\* analyzeCode resolves: merge, display map, score, the scan object
LLMResolve(groqAvailable, groq) ==
    /\ pc = "await-llm"
    /\ LET res == analyzeCode(groqAvailable, groq)
           ai == res.findings
       IN /\ llmResult' = res
          /\ aiFindings' = ai
          /\ IF mergeThrows(patternFindings, ai)
             THEN Catch(scanId) /\ UNCHANGED merged
             ELSE LET m == mergeFindings(patternFindings, ai) IN
                  /\ merged' = m
                  /\ IF displayThrows(m)
                     THEN Catch(scanId)
                     ELSE LET findings == displayFindings(m, Filename) IN
                          /\ scan' = CompletedScan(scanId, Filename, language, code,
                                         findings, calibrate(findings, res))
                          /\ pc' = "await-save"
                          /\ UNCHANGED escaped
    /\ UNCHANGED <<code, language, scanId, patternFindings, memoryStore, nextId>>
    /\ UNCHANGED <<llmVars, tokenVars, hookVars, readVars>>

\* saveScan resolves; an insert that throws is caught inside saveScan
SaveResolve(insertOk) ==
    /\ pc = "await-save"
    /\ memoryStore' = IF insertOk THEN Append(memoryStore, scan) ELSE memoryStore
    /\ pc' = "returned"
    /\ UNCHANGED <<code, language, scanId, patternFindings, llmResult, aiFindings,
                   merged, scan, escaped, nextId>>
    /\ UNCHANGED <<llmVars, tokenVars, hookVars, readVars>>

\* the components a specification does not exercise stay as constructed
LLMIdle ==
    /\ llmEnv = <<>>
    /\ providerIndex = 0
    /\ tried = <<>>

TokenIdle ==
    /\ now = 0
    /\ tokenCache = <<>>
    /\ tokenCalls = <<>>
    /\ exchanges = <<>>
    /\ githubEnv = [appId |-> "valid", privateKey |-> "valid"]

HookIdle ==
    /\ req = <<>>
    /\ hookPc = "off"
    /\ token = ""
    /\ files = <<>>
    /\ scanTargets = <<>>
    /\ fileIndex = 0
    /\ allFindings = <<>>
    /\ maxRiskScore = 0
    /\ effects = <<>>
    /\ responses = <<>>
    /\ fileScans = <<>>
    /\ comment = [posted |-> FALSE, total |-> 0, listed |-> <<>>]

ReadIdle == readResult = [op |-> "none", value |-> <<>>]

NoFindings == <<>>

Init ==
    /\ pc = "idle"
    /\ code = <<>>
    /\ language = javascript
    /\ scanId = 0
    /\ patternFindings = NoFindings
    /\ llmResult = LLMNone
    /\ aiFindings = NoFindings
    /\ merged = NoFindings
    /\ scan = FailedScan(0)
    /\ escaped = FALSE
    /\ memoryStore = <<>>
    /\ nextId = 1
    /\ LLMIdle
    /\ TokenIdle
    /\ HookIdle
    /\ ReadIdle

Next ==
    \/ \E c \in Codes, lang \in Languages : Call(c, lang)
    \/ \E g \in GroqAnswers : LLMResolve(TRUE, g)
    \/ LLMResolve(FALSE, GroqFail)
    \/ \E ok \in BOOLEAN : SaveResolve(ok)

Spec == Init /\ [][Next]_vars

-----------------------------------------------------------------------------
(* mergeFindings as a function of two arbitrary finding lists *)

MergePatternTypes == {T_SQL_INJECTION, T_SECRET}
MergeLLMTypes == {T_SqlInjectionRisk, T_SECRET}
MergePattern == {PatternFinding(t, "high", l) : t \in MergePatternTypes, l \in Lines}
MergeLLM == {LLMFinding(t, "high", l) : t \in MergeLLMTypes, l \in Lines}

InitMerge ==
    /\ pc = "merge"
    /\ \/ /\ patternFindings \in ListsUpTo(MergePattern, MaxFindings)
          /\ aiFindings \in ListsUpTo(MergeLLM, MaxFindings - Len(patternFindings))
       \/ /\ patternFindings \in ListsUpTo(MergeLLM, MaxFindings)
          /\ aiFindings = patternFindings
       \/ /\ \E t \in {T_RCE, T_SQL_INJECTION, T_SECRET, T_LOGIC} :
                patternFindings = <<PatternFinding(t, "high", 10)>>
          /\ \E t \in {T_SqlInjectionRisk, T_sql_injection_risk, T_RCE, T_SECRET, T_Logic,
                      T_SQL_INJECTION},
                l \in {11, 13} :
                aiFindings = <<LLMFinding(t, "high", l)>>
    /\ code = <<>>
    /\ language = javascript
    /\ scanId = 0
    /\ llmResult = LLMNone
    /\ merged = NoFindings
    /\ scan = FailedScan(0)
    /\ escaped = FALSE
    /\ memoryStore = <<>>
    /\ nextId = 1
    /\ LLMIdle
    /\ TokenIdle
    /\ HookIdle
    /\ ReadIdle

MergeCall ==
    /\ pc = "merge"
    /\ merged' = mergeFindings(patternFindings, aiFindings)
    /\ pc' = "merged"
    /\ UNCHANGED <<code, language, scanId, patternFindings, llmResult, aiFindings,
                   scan, escaped, memoryStore, nextId>>
    /\ UNCHANGED <<llmVars, tokenVars, hookVars, readVars>>

NextMerge == MergeCall

SpecMerge == InitMerge /\ [][NextMerge]_vars

-----------------------------------------------------------------------------
(* Properties of mergeFindings, checked under SpecMerge *)

Count(s, x) == Cardinality({i \in DOMAIN s : s[i] = x})

Range(s) == {s[i] : i \in DOMAIN s}

\* the coverage test of the design: an LLM finding within two lines whose
\* normalized bucket is the same
Covered(pf, ai) ==
    \E j \in DOMAIN ai :
        /\ ai[j].line - pf.line \in -2..2
        /\ getBaseType(ai[j].type) = getBaseType(pf.type)

\* the indexes of the pattern findings no LLM finding covers
Uncovered(p, ai) == {i \in DOMAIN p : ~Covered(p[i], ai)}

\* C2: mergeFindings returns every LLM finding plus exactly the pattern
\* findings that no LLM finding covers, each as often as it was given: none
\* of them is dropped, and no covered pattern finding is kept.
C2_MergeKeepsLLMAndUncovered ==
    pc = "merged" =>
        /\ Len(merged) = Len(aiFindings) + Cardinality(Uncovered(patternFindings, aiFindings))
        /\ \A x \in Range(merged) \cup Range(aiFindings)
                      \cup {pushed(patternFindings[i]) : i \in DOMAIN patternFindings} :
              Count(merged, x) =
                  Count(aiFindings, x)
                  + Cardinality({i \in Uncovered(patternFindings, aiFindings) :
                                    pushed(patternFindings[i]) = x})

C2_Witness ==
    /\ pc = "merged"
    /\ aiFindings # <<>>
    /\ Uncovered(patternFindings, aiFindings) # {}
    /\ Uncovered(patternFindings, aiFindings) # DOMAIN patternFindings
    /\ patternFindings # aiFindings

C4_BucketEquivalence ==
    pc = "merged" =>
        \A i \in DOMAIN patternFindings, j \in DOMAIN aiFindings :
            ( /\ patternFindings[i].type = T_SQL_INJECTION
              /\ toLowerCase(aiFindings[j].type) = T_sql_injection_risk
              /\ aiFindings[j].line = patternFindings[i].line + 1 )
            => pushed(patternFindings[i]) \notin Range(merged)

\* SQL_INJECTION at line 10 against "SQL Injection Risk" at line 11
C4_Witness ==
    /\ pc = "merged"
    /\ patternFindings = <<PatternFinding(T_SQL_INJECTION, "high", 10)>>
    /\ aiFindings = <<LLMFinding(T_SqlInjectionRisk, "high", 11)>>
    /\ merged = aiFindings

\* C5: merging a finding list with itself returns exactly its entries, taken
\* from the LLM argument: the same length, and nothing appended from the
\* pattern argument.
C5_MergeWithItself ==
    (pc = "merged" /\ patternFindings = aiFindings) =>
        /\ Len(merged) = Len(aiFindings)
        /\ \A x \in Range(merged) \cup Range(aiFindings) :
              Count(merged, x) = Count(aiFindings, x)

C5_Witness ==
    /\ pc = "merged"
    /\ patternFindings = aiFindings
    /\ Len(aiFindings) >= 2
    /\ aiFindings[1] # aiFindings[2]
    /\ Len(merged) = Len(aiFindings)

\* an entry of the merged list that came from the pattern argument
FromPattern(f) == f.issue # "llm issue"

\* the entries of s at line l
AtLine(s, l) == LET Test(f) == f.line = l IN SelectSeq(s, Test)

\* the uncovered pattern findings as pushed, in the order of the argument
RECURSIVE KeptPattern(_, _, _)
KeptPattern(p, ai, i) ==
    IF i > Len(p) THEN <<>>
    ELSE (IF Covered(p[i], ai) THEN <<>> ELSE <<pushed(p[i])>>) \o KeptPattern(p, ai, i + 1)

\* C6: the merged list is ordered by ascending line; among the findings of
\* one line the LLM findings come first, in the order of the LLM list, and
\* the pattern findings follow, in the order of the pattern list.
C6_SortedStable ==
    pc = "merged" =>
        /\ \A i, j \in DOMAIN merged : i < j => merged[i].line <= merged[j].line
        /\ \A l \in {merged[i].line : i \in DOMAIN merged} :
              AtLine(merged, l) =
                  AtLine(aiFindings, l)
                  \o AtLine(KeptPattern(patternFindings, aiFindings, 1), l)

\* the sort moved a pattern finding before an LLM finding, and one line holds
\* an LLM finding followed by a pattern finding
C6_Witness ==
    /\ pc = "merged"
    /\ Len(merged) >= 3
    /\ FromPattern(merged[1])
    /\ \E i, j \in DOMAIN merged :
          /\ i < j
          /\ merged[i].line = merged[j].line
          /\ ~FromPattern(merged[i])
          /\ FromPattern(merged[j])

-----------------------------------------------------------------------------
(* Properties of scanCode, checked under Spec *)

\* scanCode has resolved or rejected
Returned == pc = "returned"

\* C1: no two findings of a Scan returned by scanCode have the same line and
\* the same normalized type bucket.
C1_NoTwoFindingsSameLineAndBucket ==
    Returned =>
        \A i, j \in DOMAIN scan.findings :
            ( /\ i # j
              /\ scan.findings[i].line = scan.findings[j].line )
            => getBaseType(scan.findings[i].type) # getBaseType(scan.findings[j].type)

\* the severity weights of the design's base score, in hundredths
Weight(severity) ==
    CASE severity = "critical" -> 250
      [] severity = "high" -> 150
      [] severity = "medium" -> 70
      [] severity = "low" -> 20
      [] OTHER -> 50

RECURSIVE BaseScore(_)
BaseScore(fs) ==
    IF fs = <<>> THEN 0 ELSE Weight(fs[1].severity) + BaseScore(Tail(fs))

Max(a, b) == IF a >= b THEN a ELSE b

Clamp(x) == IF x < 0 THEN 0 ELSE IF x > 1000 THEN 1000 ELSE x

\* hundredths rounded to one decimal
RoundToTenth(x) == ((x + 5) \div 10) * 10

\* C7: for a Scan with findings, riskScore is max(baseScore, LLM riskScore)
\* clamped to [0, 10] and rounded to one decimal, baseScore being the sum of
\* the severity weights of the merged findings.
C7_HybridRiskScore ==
    (Returned /\ scan.status = "completed" /\ scan.findings # <<>>) =>
        scan.riskScore =
            RoundToTenth(Clamp(Max(BaseScore(scan.findings), llmResult.riskScore)))

\* C8: a Scan whose merged finding list is empty has riskScore 0, whatever
\* riskScore the LLM reported.
C8_ScoreFloor ==
    (pc \in {"await-save", "returned"} /\ scan.findings = <<>>) => scan.riskScore = 0

\* a completed Scan without findings for which the LLM reported a score
C8_Witness ==
    /\ Returned
    /\ scan.status = "completed"
    /\ merged = <<>>
    /\ scan.findings = <<>>
    /\ llmResult.riskScore # 0
    /\ scan.riskScore = 0

\* C9: the riskScore of every Scan scanCode returns or persists is within
\* [0, 10], whatever riskScore the LLM provider returned.
C9_RiskScoreInRange ==
    /\ Returned => (scan.riskScore >= 0 /\ scan.riskScore <= 1000)
    /\ \A i \in DOMAIN memoryStore :
          memoryStore[i].riskScore >= 0 /\ memoryStore[i].riskScore <= 1000

\* C10: scanCode never throws to its caller, it returns a Scan record; for an
\* empty code string the record has status "failed", no findings and
\* riskScore 0.
C10_ScanCodeTotal ==
    Returned =>
        /\ ~escaped
        /\ scan.id = scanId
        /\ scan.status \in {"completed", "failed"}
        /\ code = <<>> =>
              (scan.status = "failed" /\ scan.findings = <<>> /\ scan.riskScore = 0)

\* a call with the empty string has returned the failed record
C10_Witness ==
    /\ Returned
    /\ code = <<>>
    /\ scanId # 0
    /\ scan = FailedScan(scanId)
    /\ ~escaped

-----------------------------------------------------------------------------
(* analyzeCode, one provider at a time *)

providers == <<"groq", "openai">>

\* whether the provider is enabled in its configuration, and whether its
\* API key is in process.env
ProviderEnvs == [enabled : BOOLEAN, key : BOOLEAN]

isProviderAvailable(provider, env) ==
    IF ~env[provider].enabled THEN FALSE
    ELSE IF provider = "groq" /\ ~env[provider].key THEN FALSE
    ELSE IF provider = "openai" /\ ~env[provider].key THEN FALSE
    ELSE IF provider = "ollama" THEN FALSE
    ELSE TRUE

\* the loop moves on to the next provider
continue(provider, outcome) ==
    /\ tried' = Append(tried, [provider |-> provider, outcome |-> outcome])
    /\ providerIndex' = providerIndex + 1

\* if (provider === 'groq') result = await callGroq(...) else continue
invokes(provider) == provider = "groq"

\* one turn of the loop up to its await: the availability test and the
\* dispatch on the provider's name
ProviderStep ==
    /\ pc = "llm-loop"
    /\ providerIndex <= Len(providers)
    /\ LET provider == providers[providerIndex] IN
       IF ~isProviderAvailable(provider, llmEnv)
       THEN continue(provider, "unavailable") /\ UNCHANGED pc
       ELSE IF invokes(provider)
            THEN /\ pc' = "await-provider"
                 /\ UNCHANGED <<providerIndex, tried>>
            ELSE continue(provider, "not-invoked") /\ UNCHANGED pc
    /\ UNCHANGED <<llmResult, escaped, llmEnv>>
    /\ UNCHANGED <<code, language, scanId, patternFindings, aiFindings, merged,
                   scan, memoryStore, nextId>>
    /\ UNCHANGED <<tokenVars, hookVars, readVars>>

\* the provider's call settles: the return statement, or the catch block
ProviderResolve(answer) ==
    /\ pc = "await-provider"
    /\ LET provider == providers[providerIndex] IN
       IF answer.ok
       THEN /\ llmResult' = [analyzeCode(TRUE, answer) EXCEPT !.provider = provider]
            /\ tried' = Append(tried, [provider |-> provider, outcome |-> "ok"])
            /\ pc' = "llm-returned"
            /\ UNCHANGED providerIndex
       ELSE /\ continue(provider, "failed")
            /\ pc' = "llm-loop"
            /\ UNCHANGED llmResult
    /\ UNCHANGED <<escaped, llmEnv>>
    /\ UNCHANGED <<code, language, scanId, patternFindings, aiFindings, merged,
                   scan, memoryStore, nextId>>
    /\ UNCHANGED <<tokenVars, hookVars, readVars>>

\* throw new Error('All LLM providers failed')
allFailed_throws ==
    /\ escaped' = TRUE
    /\ llmResult' = llmResult

\* return { findings: [], riskScore: 0.0, provider: "none" }
allFailed ==
    /\ escaped' = FALSE
    /\ llmResult' = LLMNone

\* the loop is over without a return
LoopEnd ==
    /\ pc = "llm-loop"
    /\ providerIndex > Len(providers)
    /\ allFailed
    /\ pc' = "llm-returned"
    /\ UNCHANGED <<llmEnv, providerIndex, tried>>
    /\ UNCHANGED <<code, language, scanId, patternFindings, aiFindings, merged,
                   scan, memoryStore, nextId>>
    /\ UNCHANGED <<tokenVars, hookVars, readVars>>

InitLLM ==
    /\ pc = "llm-loop"
    /\ llmEnv \in [{"groq", "openai"} -> ProviderEnvs]
    /\ providerIndex = 1
    /\ tried = <<>>
    /\ code = <<>>
    /\ language = javascript
    /\ scanId = 0
    /\ patternFindings = NoFindings
    /\ llmResult = LLMNone
    /\ aiFindings = NoFindings
    /\ merged = NoFindings
    /\ scan = FailedScan(0)
    /\ escaped = FALSE
    /\ memoryStore = <<>>
    /\ nextId = 1
    /\ TokenIdle
    /\ HookIdle
    /\ ReadIdle

NextLLM ==
    \/ ProviderStep
    \/ \E answer \in GroqAnswers : ProviderResolve(answer)
    \/ LoopEnd

SpecLLM == InitLLM /\ [][NextLLM]_vars

-----------------------------------------------------------------------------
(* Properties of the LLM gateway *)

\* what identifies a finding whatever fields the engines add to it
Core(f) == <<toUpperCase(f.type), f.severity, f.line>>

Cores(fs) == [i \in DOMAIN fs |-> Core(fs[i])]

SameBag(s, t) ==
    /\ Len(s) = Len(t)
    /\ \A x \in Range(s) \cup Range(t) : Count(s, x) = Count(t, x)

\* C11: when no LLM provider gives a result, scanCode on non-empty code
\* returns a Scan with status "completed" whose findings are exactly the
\* findings of the pattern engine
C11_ProvidersDownPatternOnly ==
    (Returned /\ code # <<>> /\ llmResult.provider = "none")
    => /\ scan.status = "completed"
       /\ SameBag(Cores(scan.findings), Cores(patternFindings))

\* every provider was passed, and each was unavailable or failed
EveryProviderDown ==
    /\ Len(tried) = Len(providers)
    /\ \A k \in DOMAIN tried : tried[k].outcome \in {"unavailable", "failed"}

\* C12: analyzeCode never throws, and when every provider is unavailable or
\* has failed it returns findings [], riskScore 0 and provider "none"
C12_AnalyzeCodeNeverThrows ==
    /\ ~escaped
    /\ (pc = "llm-returned" /\ EveryProviderDown)
       => llmResult = [findings |-> <<>>, riskScore |-> 0, provider |-> "none"]

C12_Witness ==
    /\ pc = "llm-returned"
    /\ EveryProviderDown
    /\ \E k \in DOMAIN tried : tried[k].outcome = "failed"
    /\ ~escaped

\* C13: once a provider has failed, every available provider the loop
\* reaches after it is invoked (and so returns its result when it succeeds)
C13_FallbackInvokesNextAvailable ==
    \A k \in DOMAIN tried :
        (/\ \E j \in 1..(k - 1) : tried[j].outcome = "failed"
         /\ isProviderAvailable(tried[k].provider, llmEnv))
        => tried[k].outcome \in {"ok", "failed"}

-----------------------------------------------------------------------------
(* getInstallationToken and the token cache *)

MaxInstallations == 2
MaxTokenCalls == 3
MaxTicks == 2

\* ((response.data.expires_in || 3600) - 300) * 1000
SafetyMarginSeconds == 300
DefaultExpiresIn == 3600
MsPerSecond == 1000

Installations == 1..MaxInstallations

\* the clock advances by the length of the safety margin
TickMs == SafetyMarginSeconds * MsPerSecond

\* an access token: GitHub issues it for the installation of the request
Token(installation, serial) == [installation |-> installation, serial |-> serial]
NoToken == Token(0, 0)

\* what tokenCache.get gives for a key the Map does not hold
NoEntry == [token |-> NoToken, expiresAt |-> 0, present |-> FALSE]

\* one slot for every installation (this.cachedToken)
cacheGet_oneSlot(cache, installationId) ==
    IF DOMAIN cache = {} THEN NoEntry
    ELSE cache[CHOOSE k \in DOMAIN cache : TRUE]

\* tokenCache.get(installationId)
cacheGet(cache, installationId) ==
    IF installationId \in DOMAIN cache THEN cache[installationId] ELSE NoEntry

\* tokenCache.set(installationId, entry)
cacheSet(cache, installationId, entry) ==
    [k \in DOMAIN cache \cup {installationId} |->
        IF k = installationId THEN entry ELSE cache[k]]

\* x || d on an optional number
NumberOr(x, d) == IF x = <<>> \/ x[1] = 0 THEN d ELSE x[1]

\* the entry kept as long as GitHub honours the token
expiresAt_noMargin(t, expires_in) ==
    t + NumberOr(expires_in, DefaultExpiresIn) * MsPerSecond

\* Date.now() + ((response.data.expires_in || 3600) - 300) * 1000
expiresAt(t, expires_in) ==
    t + (NumberOr(expires_in, DefaultExpiresIn) - SafetyMarginSeconds) * MsPerSecond

\* cached && Date.now() < cached.expiresAt
cacheHit(cache, installationId, t) ==
    LET cached == cacheGet(cache, installationId) IN
    cached.present /\ t < cached.expiresAt

\* response.data.expires_in of the exchange: absent for the default hour, or
\* ten minutes
ExpiresIn == {<<>>, <<2 * SafetyMarginSeconds>>}

TokenCallRecord(installationId, state, tok, cached) ==
    [id |-> installationId, state |-> state, token |-> tok, cached |-> cached]

\* GITHUB_APP_ID and GITHUB_PRIVATE_KEY as the process was started: not
\* set, set to a value that is not the App's id or not a PEM key, or right
GitHubEnvs == [appId : {"missing", "malformed", "valid"},
               privateKey : {"missing", "malformed", "valid"}]

ConfiguredEnv == [appId |-> "valid", privateKey |-> "valid"]

\* generateJWT throws when the key is empty, and jwt.sign throws on a key
\* that is not an RSA key; the iss claim is signed as it is
generateJWTThrows(env) == env.privateKey # "valid"

\* the access_tokens endpoint issues a token only for a JWT signed with
\* the App's key whose iss is the App's id
githubAccepts(env) == env.appId = "valid" /\ env.privateKey = "valid"

\* the catch block resolves to null instead of throwing
tokenCatch_returnsNull(installationId) ==
    TokenCallRecord(installationId, "returned", NoToken, FALSE)

\* catch (error) { logger.error(...); throw error }
tokenCatch(installationId) ==
    TokenCallRecord(installationId, "thrown", NoToken, FALSE)

\* getInstallationToken up to its await: the cache test, then either the
\* cached token, or generateJWT and the exchange request
TokenCall(installationId) ==
    /\ Len(tokenCalls) < MaxTokenCalls
    /\ tokenCalls' = Append(tokenCalls,
          IF cacheHit(tokenCache, installationId, now)
          THEN TokenCallRecord(installationId, "returned",
                               cacheGet(tokenCache, installationId).token, TRUE)
          ELSE IF generateJWTThrows(githubEnv)
          THEN tokenCatch(installationId)
          ELSE TokenCallRecord(installationId, "exchanging", NoToken, FALSE))
    /\ UNCHANGED <<now, tokenCache, exchanges, githubEnv>>
    /\ UNCHANGED <<scanVars, llmVars, hookVars, readVars>>

\* the exchange of call k settles: the token is cached and returned, or the
\* error is logged and thrown again
ExchangeResolve(k, ok, expires_in) ==
    /\ k \in DOMAIN tokenCalls
    /\ tokenCalls[k].state = "exchanging"
    /\ ok => githubAccepts(githubEnv)
    /\ LET installationId == tokenCalls[k].id
           tok == Token(installationId, Len(exchanges) + 1)
       IN IF ok
          THEN /\ exchanges' = Append(exchanges,
                     [id |-> installationId, token |-> tok, at |-> now,
                      expires_in |-> expires_in])
               /\ tokenCache' = cacheSet(tokenCache, installationId,
                     [token |-> tok, expiresAt |-> expiresAt(now, expires_in),
                      present |-> TRUE])
               /\ tokenCalls' = [tokenCalls EXCEPT ![k] =
                     TokenCallRecord(installationId, "returned", tok, FALSE)]
          ELSE /\ tokenCalls' = [tokenCalls EXCEPT ![k] = tokenCatch(installationId)]
               /\ UNCHANGED <<tokenCache, exchanges>>
    /\ UNCHANGED <<now, githubEnv>>
    /\ UNCHANGED <<scanVars, llmVars, hookVars, readVars>>

\* time passes
Tick ==
    /\ now < MaxTicks * TickMs
    /\ now' = now + TickMs
    /\ UNCHANGED <<tokenCache, tokenCalls, exchanges, githubEnv>>
    /\ UNCHANGED <<scanVars, llmVars, hookVars, readVars>>

ScanIdle ==
    /\ pc = "idle"
    /\ code = <<>>
    /\ language = javascript
    /\ scanId = 0
    /\ patternFindings = NoFindings
    /\ llmResult = LLMNone
    /\ aiFindings = NoFindings
    /\ merged = NoFindings
    /\ scan = FailedScan(0)
    /\ escaped = FALSE
    /\ memoryStore = <<>>
    /\ nextId = 1

InitToken ==
    /\ now = 0
    /\ tokenCache = <<>>
    /\ tokenCalls = <<>>
    /\ exchanges = <<>>
    /\ githubEnv \in GitHubEnvs
    /\ ScanIdle
    /\ LLMIdle
    /\ HookIdle
    /\ ReadIdle

NextToken ==
    \/ \E installationId \in Installations : TokenCall(installationId)
    \/ \E k \in 1..MaxTokenCalls, ok \in BOOLEAN, expires_in \in ExpiresIn :
          ExchangeResolve(k, ok, expires_in)
    \/ Tick

SpecToken == InitToken /\ [][NextToken]_vars

-----------------------------------------------------------------------------
(* Properties of the token cache, checked under SpecToken *)

HasExchange(id) == \E k \in DOMAIN exchanges : exchanges[k].id = id

\* the latest successful exchange for the installation
LastExchange(id) ==
    exchanges[CHOOSE k \in DOMAIN exchanges :
        /\ exchanges[k].id = id
        /\ \A j \in DOMAIN exchanges : exchanges[j].id = id => j <= k]

\* the lifetime GitHub gave the token, in seconds: one hour when the
\* response does not say
Lifetime(e) == IF e.expires_in = <<>> THEN 3600 ELSE e.expires_in[1]

\* the instant t + (E - 300) s, in milliseconds
RefreshDue(e) == e.at + (Lifetime(e) - 300) * 1000

\* the call the step adds, if it adds one
NewCall == tokenCalls'[Len(tokenCalls')]

\* C18: after an exchange for installation i at t with lifetime E, a call
\* for i before t + (E - 300) s returns the cached token without a new
\* exchange, and a call at or after that instant sends a new exchange,
\* so that a cached token past that instant is never returned
C18_TokenLifecycle ==
    [][\A id \in Installations :
          (/\ Len(tokenCalls') = Len(tokenCalls) + 1
           /\ NewCall.id = id
           /\ HasExchange(id))
          => IF now < RefreshDue(LastExchange(id))
             THEN /\ NewCall.state = "returned"
                  /\ NewCall.cached
                  /\ NewCall.token = LastExchange(id).token
             ELSE /\ NewCall.state = "exchanging"
                  /\ ~NewCall.cached]_vars

\* a token was exchanged, a later call got it from the cache, and a call at
\* or after the refresh instant exchanged again
C18_Witness ==
    \E a, b \in DOMAIN exchanges :
        /\ a < b
        /\ exchanges[a].id = exchanges[b].id
        /\ exchanges[b].at >= RefreshDue(exchanges[a])
        /\ \E k \in DOMAIN tokenCalls :
              /\ tokenCalls[k].cached
              /\ tokenCalls[k].token = exchanges[a].token

\* C19: a getInstallationToken(i) call never returns a token that was
\* issued for another installation
C19_TokenOfOwnInstallation ==
    \A k \in DOMAIN tokenCalls :
        tokenCalls[k].state = "returned"
        => tokenCalls[k].token.installation = tokenCalls[k].id

\* calls for two installations have returned, one of them from the cache
\* while the other installation's token was cached too
C19_Witness ==
    \E a, b \in DOMAIN tokenCalls :
        /\ tokenCalls[a].id # tokenCalls[b].id
        /\ tokenCalls[a].state = "returned"
        /\ tokenCalls[b].state = "returned"
        /\ a < b
        /\ tokenCalls[b].cached
        /\ cacheGet(tokenCache, tokenCalls[a].id).present

\* C20: two calls for the same installation never have an exchange request
\* in flight at the same time
C20_OneExchangeInFlight ==
    \A a, b \in DOMAIN tokenCalls :
        (/\ a # b
         /\ tokenCalls[a].id = tokenCalls[b].id
         /\ tokenCalls[a].state = "exchanging")
        => tokenCalls[b].state # "exchanging"

\* C21: getInstallationToken throws and returns no token whenever the App
\* ID or the private key is missing or malformed, and whenever the exchange
\* call settles without GitHub issuing a token; nothing is cached then
C21_TokenFailureThrows ==
    [][/\ ~githubAccepts(githubEnv)
          => \A k \in DOMAIN tokenCalls' : tokenCalls'[k].state # "returned"
       /\ generateJWTThrows(githubEnv)
          => \A k \in DOMAIN tokenCalls' :
                 /\ tokenCalls'[k].state = "thrown"
                 /\ tokenCalls'[k].token = NoToken
       /\ \A k \in DOMAIN tokenCalls :
             (/\ tokenCalls[k].state = "exchanging"
              /\ tokenCalls'[k].state # "exchanging"
              /\ exchanges' = exchanges)
             => /\ tokenCalls'[k].state = "thrown"
                /\ tokenCalls'[k].token = NoToken
                /\ tokenCache' = tokenCache]_vars

\* without App ID, a call sent its exchange request and threw when the
\* request failed
C21_Witness ==
    /\ githubEnv.appId = "missing"
    /\ githubEnv.privateKey = "valid"
    /\ \E k \in DOMAIN tokenCalls : tokenCalls[k].state = "thrown"
    /\ \E k \in DOMAIN tokenCalls : tokenCalls[k].state = "exchanging"
    /\ tokenCache = <<>>

-----------------------------------------------------------------------------
(* The webhook: request, signature, files *)

MaxFiles == 2

CODE_EXTENSIONS ==
    << <<".", "j", "s">>,
       <<".", "j", "s", "x">>,
       <<".", "t", "s">>,
       <<".", "t", "s", "x">>,
       <<".", "p", "y">>,
       <<".", "p", "y", "w">>,
       <<".", "j", "a", "v", "a">>,
       <<".", "g", "o">>,
       <<".", "r", "b">>,
       <<".", "p", "h", "p">>,
       <<".", "c">>,
       <<".", "c", "p", "p">>,
       <<".", "h">>,
       <<".", "c", "s">>,
       <<".", "s", "w", "i", "f", "t">>,
       <<".", "k", "t">>,
       <<".", "k", "t", "s">>,
       <<".", "r", "s">>,
       <<".", "s", "c", "a", "l", "a">>,
       <<".", "s", "c">> >>

\* s.endsWith(ext)
endsWith(s, ext) ==
    /\ Len(ext) <= Len(s)
    /\ SubSeq(s, Len(s) - Len(ext) + 1, Len(s)) = ext

\* the extension compared without toLowerCase
shouldScanFile_caseSensitive(filename) ==
    /\ filename # Undefined
    /\ filename # <<>>
    /\ \E e \in DOMAIN CODE_EXTENSIONS : endsWith(filename, CODE_EXTENSIONS[e])

\* filename && CODE_EXTENSIONS.some(ext => filename.toLowerCase().endsWith(ext))
shouldScanFile(filename) ==
    /\ filename # Undefined
    /\ filename # <<>>
    /\ \E e \in DOMAIN CODE_EXTENSIONS :
          endsWith(toLowerCase(filename), CODE_EXTENSIONS[e])

\* files.filter(f => shouldScanFile(f.filename)), from entry i on
RECURSIVE filterScanTargets(_, _)
filterScanTargets(fs, i) ==
    IF i > Len(fs) THEN <<>>
    ELSE (IF shouldScanFile(fs[i].filename) THEN <<fs[i]>> ELSE <<>>)
         \o filterScanTargets(fs, i + 1)

File(filename) == [filename |-> filename]

\* the files a pull request can list
FileNames == { <<"a", ".", "j", "s">>, <<"B", ".", "P", "Y">>,
               <<"r", ".", "m", "d">> }
FileLists == ListsUpTo({File(n) : n \in FileNames}, MaxFiles)

\* process.env.GITHUB_WEBHOOK_SECRET; "" when it is not set
NoSecret == ""
Secrets == {NoSecret, "whsec"}

\* the value a body parses to: action, installation.id (<<>> when the
\* payload has no installation) and whether it has repository and pull_request
Payload(kind, action, installation, repository) ==
    [kind |-> kind, action |-> action, installation |-> installation,
     repository |-> repository]

\* a request body: the bytes received and what JSON.parse makes of them
Body(text, value) == [text |-> text, value |-> value]

\* a request without body; also req.rawBody when none was captured
NoBody == Body("", Payload("none", "", <<>>, FALSE))

Bodies ==
    { NoBody,
      Body("{bad", Payload("malformed", "", <<>>, FALSE)),
      Body("null", Payload("null", "", <<>>, FALSE)),
      Body("[]", Payload("object", "undefined", <<>>, FALSE)),
      Body("opened", Payload("object", "opened", <<1>>, TRUE)),
      Body("synchronize", Payload("object", "synchronize", <<1>>, TRUE)),
      Body("closed", Payload("object", "closed", <<1>>, TRUE)),
      Body("opened, no installation", Payload("object", "opened", <<>>, TRUE)),
      Body("opened, no repository", Payload("object", "opened", <<1>>, FALSE)) }

\* 'sha256=' + createHmac('sha256', secret).update(rawBody).digest('hex'):
\* a digest of fixed length that depends on the secret and on the bytes
hmac(secret, rawBody) ==
    <<"s", "h", "a", "2", "5", "6", "=", secret, rawBody.text>>

\* crypto.timingSafeEqual: throws when the lengths differ
timingSafeEqual(a, b) ==
    IF Len(a) # Len(b) THEN "throw"
    ELSE IF a = b THEN "true" ELSE "false"

\* verifySignature: a crash of the comparison is caught and gives false
verifySignature(r) ==
    IF r.signature = Undefined \/ r.secret = NoSecret \/ r.rawBody = NoBody
    THEN FALSE
    ELSE timingSafeEqual(r.signature, hmac(r.secret, r.rawBody)) = "true"

\* the x-hub-signature-256 headers a sender can choose: none, the HMAC of
\* some body under the secret, or such an HMAC cut short
Signatures ==
    {Undefined}
    \cup {hmac("whsec", b) : b \in Bodies \ {NoBody}}
    \cup {SubSeq(hmac("whsec", b), 1, 8) : b \in Bodies \ {NoBody}}

Events == {"pull_request", "push"}

ContentTypes == {"application/json", "text/plain"}

\* a request as it arrives: req.rawBody is not set yet
Requests ==
    {[signature |-> sig, secret |-> secret, contentType |-> type, body |-> body,
      rawBody |-> NoBody, event |-> event] :
        sig \in Signatures, secret \in Secrets, type \in ContentTypes,
        body \in Bodies, event \in Events}

NoRequest ==
    [signature |-> Undefined, secret |-> NoSecret, contentType |-> "",
     body |-> NoBody, rawBody |-> NoBody, event |-> ""]

\* express.json reads the body of a JSON request that has one
jsonRead(r) == r.contentType = "application/json" /\ r.body # NoBody

\* express.json({verify}): req.rawBody = buf, for the body it reads
capturedBody(r) == IF jsonRead(r) THEN r.body ELSE NoBody

\* express.json passes an error to next() when the body it reads is not
\* the text of a JSON object or array
jsonRejects(r) == jsonRead(r) /\ r.body.value.kind \in {"malformed", "null"}

\* app.use((err, req, res, next) => res.status(500).json(...))
serverErrorResponse == [status |-> 500, body |-> "Internal Server Error"]

-----------------------------------------------------------------------------
(* handleGitHubWebhook and handlePullRequest *)

NoFile == <<>>

\* an outbound call: "token", "files", "content", "scan" or "comment", the
\* file it is about, and how it settled
Effect(op, file, result) == [op |-> op, file |-> file, result |-> result]

\* the call made last has settled
Settle(eff, result) == [eff EXCEPT ![Len(eff)].result = result]

\* res.status(200).send("Ignored")
ignoredResponse == [status |-> 200, body |-> "Ignored"]

\* res.status(200).send("OK")
okResponse == [status |-> 200, body |-> "OK"]

\* the catch block: res.status(200).send("Error")
errorResponse == [status |-> 200, body |-> "Error"]

\* every action of a pull request is scanned
triggersScan_anyAction(action) == TRUE

\* ["opened", "synchronize"].includes(action)
triggersScan(action) == action \in {"opened", "synchronize"}

\* no comment has been built
NoComment == [posted |-> FALSE, total |-> 0, listed |-> <<>>]

\* const finalScanData = { findings: allFindings, riskScore: maxRiskScore }
finalScanData(findings, riskScore) ==
    [isArray |-> FALSE, findings |-> findings, riskScore |-> riskScore]

\* Array.isArray(findings) ? findings : []
safeFindings(findings) == IF findings.isArray THEN findings.items ELSE <<>>

\* the body createPRComment builds: "Total Issues Found: <stats.total>",
\* then one section for each entry of safeFindings
commentBody(findings) ==
    [posted |-> TRUE, total |-> Len(safeFindings(findings)),
     listed |-> safeFindings(findings)]

\* the handler sends its response and returns
Finish(eff, response) ==
    /\ effects' = eff
    /\ responses' = Append(responses, response)
    /\ hookPc' = "done"
    /\ UNCHANGED <<fileIndex, comment>>

\* handlePullRequest once it has the token: the arguments of
\* getPullRequestFiles are read from the payload, then the call is made
RequestFiles(payload, eff) ==
    IF ~payload.repository
    THEN Finish(eff, errorResponse)
    ELSE /\ effects' = Append(eff, Effect("files", NoFile, "pending"))
         /\ hookPc' = "await-files"
         /\ UNCHANGED <<responses, fileIndex, comment>>

\* a pull request without scannable files gets no comment
nextStep_commentOnlyWithTargets(targets, i) ==
    IF Len(targets) = 0 THEN "return"
    ELSE IF i <= Len(targets) THEN "content" ELSE "comment"

\* for (const file of scanTargets) { ... } createPRComment(...)
nextStep(targets, i) ==
    IF i <= Len(targets) THEN "content" ELSE "comment"

\* the loop reaches entry i of scanTargets, or ends and the comment is
\* built from finalScanData and posted
NextFile(targets, i, eff) ==
    /\ fileIndex' = i
    /\ IF nextStep(targets, i) = "content"
       THEN /\ effects' = Append(eff, Effect("content", targets[i].filename, "pending"))
            /\ hookPc' = "await-content"
            /\ UNCHANGED <<responses, comment>>
       ELSE IF nextStep(targets, i) = "comment"
       THEN /\ effects' = Append(eff, Effect("comment", NoFile, "pending"))
            /\ comment' = commentBody(finalScanData(allFindings', maxRiskScore'))
            /\ hookPc' = "await-comment"
            /\ UNCHANGED responses
       ELSE /\ effects' = eff
            /\ responses' = Append(responses, okResponse)
            /\ hookPc' = "done"
            /\ UNCHANGED comment

\* the request arrives: the body parser, then the handler's signature
\* test, JSON.parse, the event and action tests, and getInstallationToken
\* up to its await
Deliver(request) ==
    /\ hookPc = "idle"
    /\ req' = [request EXCEPT !.rawBody = capturedBody(request)]
    /\ LET r == [request EXCEPT !.rawBody = capturedBody(request)]
           payload == r.rawBody.value
       IN
       IF jsonRejects(request)
       THEN Finish(effects, serverErrorResponse) /\ UNCHANGED <<token, tokenVars>>
       ELSE IF ~verifySignature(r)
       THEN Finish(effects, ignoredResponse) /\ UNCHANGED <<token, tokenVars>>
       ELSE IF payload.kind = "malformed"
       THEN Finish(effects, errorResponse) /\ UNCHANGED <<token, tokenVars>>
       ELSE IF r.event # "pull_request"
       THEN Finish(effects, okResponse) /\ UNCHANGED <<token, tokenVars>>
       ELSE IF payload.kind = "null"
       THEN Finish(effects, errorResponse) /\ UNCHANGED <<token, tokenVars>>
       ELSE IF ~triggersScan(payload.action)
       THEN Finish(effects, okResponse) /\ UNCHANGED <<token, tokenVars>>
       ELSE IF payload.installation = <<>>
       THEN Finish(effects, errorResponse) /\ UNCHANGED <<token, tokenVars>>
       ELSE LET installationId == payload.installation[1] IN
            IF cacheHit(tokenCache, installationId, now)
            THEN LET cached == cacheGet(tokenCache, installationId).token IN
                 /\ token' = cached
                 /\ tokenCalls' = Append(tokenCalls,
                       TokenCallRecord(installationId, "returned", cached, TRUE))
                 /\ RequestFiles(payload,
                       Append(effects, Effect("token", NoFile, "ok")))
                 /\ UNCHANGED <<now, tokenCache, exchanges, githubEnv>>
            ELSE IF generateJWTThrows(githubEnv)
            THEN /\ tokenCalls' = Append(tokenCalls, tokenCatch(installationId))
                 /\ Finish(Append(effects, Effect("token", NoFile, "failed")),
                           errorResponse)
                 /\ UNCHANGED <<token, now, tokenCache, exchanges, githubEnv>>
            ELSE /\ tokenCalls' = Append(tokenCalls,
                       TokenCallRecord(installationId, "exchanging", NoToken, FALSE))
                 /\ effects' = Append(effects, Effect("token", NoFile, "pending"))
                 /\ hookPc' = "await-token"
                 /\ UNCHANGED <<token, responses, fileIndex, comment>>
                 /\ UNCHANGED <<now, tokenCache, exchanges, githubEnv>>
    /\ UNCHANGED <<files, scanTargets, allFindings, maxRiskScore, fileScans>>
    /\ UNCHANGED <<scanVars, llmVars, readVars>>

\* the token exchange settles
TokenResponse(ok, expires_in) ==
    /\ hookPc = "await-token"
    /\ ok => githubAccepts(githubEnv)
    /\ LET payload == req.rawBody.value
           installationId == payload.installation[1]
           k == Len(tokenCalls)
           tok == Token(installationId, Len(exchanges) + 1)
       IN IF ok
          THEN /\ exchanges' = Append(exchanges,
                     [id |-> installationId, token |-> tok, at |-> now,
                      expires_in |-> expires_in])
               /\ tokenCache' = cacheSet(tokenCache, installationId,
                     [token |-> tok, expiresAt |-> expiresAt(now, expires_in),
                      present |-> TRUE])
               /\ tokenCalls' = [tokenCalls EXCEPT ![k] =
                     TokenCallRecord(installationId, "returned", tok, FALSE)]
               /\ token' = tok
               /\ RequestFiles(payload, Settle(effects, "ok"))
          ELSE /\ tokenCalls' = [tokenCalls EXCEPT ![k] = tokenCatch(installationId)]
               /\ Finish(Settle(effects, "failed"), errorResponse)
               /\ UNCHANGED <<token, tokenCache, exchanges>>
    /\ UNCHANGED <<now, githubEnv, req, files, scanTargets, allFindings, maxRiskScore,
                   fileScans>>
    /\ UNCHANGED <<scanVars, llmVars, readVars>>

\* getPullRequestFiles settles: the filter, then the first file or the comment
FilesResponse(ok, fs) ==
    /\ hookPc = "await-files"
    /\ UNCHANGED <<req, token, allFindings, maxRiskScore, fileScans, tokenVars>>
    /\ IF ok
       THEN /\ files' = fs
            /\ scanTargets' = filterScanTargets(fs, 1)
            /\ NextFile(filterScanTargets(fs, 1), 1, Settle(effects, "ok"))
       ELSE /\ Finish(Settle(effects, "failed"), errorResponse)
            /\ UNCHANGED <<files, scanTargets>>
    /\ UNCHANGED <<scanVars, llmVars, readVars>>

\* getFileContent without its catch block: the error reaches the handler
ContentResponse_throws(hasContent) ==
    /\ hookPc = "await-content"
    /\ UNCHANGED <<req, token, files, scanTargets, allFindings, maxRiskScore,
                   fileScans, tokenVars>>
    /\ IF hasContent
       THEN /\ effects' = Append(Settle(effects, "ok"),
                  Effect("scan", scanTargets[fileIndex].filename, "pending"))
            /\ hookPc' = "await-scan"
            /\ UNCHANGED <<responses, fileIndex, comment>>
       ELSE Finish(Settle(effects, "failed"), errorResponse)
    /\ UNCHANGED <<scanVars, llmVars, readVars>>

\* getFileContent settles: null (request failed, or no content) skips the file
ContentResponse(hasContent) ==
    /\ hookPc = "await-content"
    /\ UNCHANGED <<req, token, files, scanTargets, allFindings, maxRiskScore,
                   fileScans, tokenVars>>
    /\ IF hasContent
       THEN /\ effects' = Append(Settle(effects, "ok"),
                  Effect("scan", scanTargets[fileIndex].filename, "pending"))
            /\ hookPc' = "await-scan"
            /\ UNCHANGED <<responses, fileIndex, comment>>
       ELSE NextFile(scanTargets, fileIndex + 1, Settle(effects, "failed"))
    /\ UNCHANGED <<scanVars, llmVars, readVars>>

\* what scanCode(content, file.filename, ...) resolves to for code c when
\* analyzeCode resolved to llm: the language is the default, "javascript"
scanCodeResult(c, filename, llm) ==
    LET fs == displayFindings(
                  mergeFindings(quickPatternScan(c, javascript), llm.findings),
                  filename)
    IN CompletedScan(0, filename, javascript, c, fs, calibrate(fs, llm))

\* the Scans the handler can receive for a file: a failed one, clean code,
\* a pattern finding without LLM, and LLM findings with a score
ScanResults(filename) ==
    { FailedScan(0),
      scanCodeResult(<<{}>>, filename, LLMNone),
      scanCodeResult(<<{"dangerousFunctions"}>>, filename, LLMNone),
      scanCodeResult(<<{"hardcodedSecrets"}>>, filename,
          analyzeCode(TRUE, [ok |-> TRUE, riskScore |-> <<347>>,
              findings |-> [isArray |-> TRUE,
                            items |-> <<LLMFinding(T_RCE, "medium", 1)>>]])) }

AllScanResults == UNION {ScanResults(n) : n \in FileNames}

\* scanCode settles: the findings and the highest score are kept
ScanResolve(scanResult) ==
    /\ hookPc = "await-scan"
    /\ scanResult \in ScanResults(scanTargets[fileIndex].filename)
    /\ fileScans' = Append(fileScans, scanResult)
    /\ allFindings' = allFindings \o scanResult.findings
    /\ maxRiskScore' = IF scanResult.riskScore > maxRiskScore
                       THEN scanResult.riskScore ELSE maxRiskScore
    /\ NextFile(scanTargets, fileIndex + 1, Settle(effects, scanResult.status))
    /\ UNCHANGED <<req, token, files, scanTargets, tokenVars>>
    /\ UNCHANGED <<scanVars, llmVars, readVars>>

\* createPRComment settles; a failed post is logged inside createPRComment
CommentResponse(ok) ==
    /\ hookPc = "await-comment"
    /\ Finish(Settle(effects, IF ok THEN "ok" ELSE "failed"), okResponse)
    /\ UNCHANGED <<req, token, files, scanTargets, allFindings, maxRiskScore,
                   fileScans, tokenVars>>
    /\ UNCHANGED <<scanVars, llmVars, readVars>>

\* the cache when the request arrives: empty, or holding the token of an
\* earlier exchange for installation 1
InitHook ==
    /\ req = NoRequest
    /\ hookPc = "idle"
    /\ token = NoToken
    /\ files = <<>>
    /\ scanTargets = <<>>
    /\ fileIndex = 0
    /\ allFindings = <<>>
    /\ maxRiskScore = 0
    /\ effects = <<>>
    /\ responses = <<>>
    /\ fileScans = <<>>
    /\ comment = NoComment
    /\ now = 0
    /\ tokenCalls = <<>>
    /\ \/ tokenCache = <<>> /\ exchanges = <<>> /\ githubEnv \in GitHubEnvs
       \/ /\ githubEnv = ConfiguredEnv
          /\ exchanges = <<[id |-> 1, token |-> Token(1, 1), at |-> 0,
                             expires_in |-> <<>>]>>
          /\ tokenCache = cacheSet(<<>>, 1,
                [token |-> Token(1, 1), expiresAt |-> expiresAt(0, <<>>),
                 present |-> TRUE])
    /\ ScanIdle
    /\ LLMIdle
    /\ ReadIdle

NextHook ==
    \/ \E request \in Requests : Deliver(request)
    \/ \E ok \in BOOLEAN, expires_in \in ExpiresIn : TokenResponse(ok, expires_in)
    \/ \E ok \in BOOLEAN, fs \in FileLists : FilesResponse(ok, fs)
    \/ \E hasContent \in BOOLEAN : ContentResponse(hasContent)
    \/ \E scanResult \in AllScanResults : ScanResolve(scanResult)
    \/ \E ok \in BOOLEAN : CommentResponse(ok)

SpecHook == InitHook /\ [][NextHook]_vars

-----------------------------------------------------------------------------
(* Properties of the webhook, checked under SpecHook *)

\* the header is the HMAC of the received bytes under the configured secret
ValidSignature(r) ==
    /\ r.secret # NoSecret
    /\ r.body # NoBody
    /\ r.signature = hmac(r.secret, r.body)

\* the request has been received
Handled == hookPc # "idle"

\* the handler has returned after sending one response of status 200
Acknowledged ==
    /\ hookPc = "done"
    /\ Len(responses) = 1
    /\ responses[1].status = 200

\* C14: a request whose signature header is missing, wrong or of another
\* length than the expected HMAC causes no token request, no scan and no
\* comment, and is answered with status 200
C14_BadSignatureIgnored ==
    (Handled /\ ~ValidSignature(req)) => (effects = <<>> /\ Acknowledged)

\* C15: a request never gets more than one response, it has exactly one
\* when the handler has returned, and every response has status 200
C15_AlwaysOneResponse200 ==
    /\ Len(responses) <= 1
    /\ (hookPc = "done") <=> (Len(responses) = 1)
    /\ \A k \in DOMAIN responses : responses[k].status = 200

\* C16: a correctly signed event that is not a pull_request event with
\* action opened or synchronize causes no token request, no file fetch, no
\* scanCode call and no comment, and is acknowledged with status 200
C16_OnlyOpenedOrSynchronize ==
    (/\ Handled
     /\ ValidSignature(req)
     /\ req.body.value.kind = "object"
     /\ ~(/\ req.event = "pull_request"
          /\ req.body.value.action \in {"opened", "synchronize"}))
    => (effects = <<>> /\ Acknowledged)

\* a correctly signed pull_request "closed" delivery has been answered
C16_Witness ==
    /\ hookPc = "done"
    /\ ValidSignature(req)
    /\ req.contentType = "application/json"
    /\ req.event = "pull_request"
    /\ req.body.value.kind = "object"
    /\ req.body.value.action = "closed"
    /\ Len(responses) = 1

\* a correctly signed pull_request opened/synchronize delivery, with the
\* installation, repository and pull_request GitHub puts in it
TriggeringDelivery(r) ==
    /\ ValidSignature(r)
    /\ r.contentType = "application/json"
    /\ r.event = "pull_request"
    /\ r.body.value.kind = "object"
    /\ r.body.value.action \in {"opened", "synchronize"}
    /\ r.body.value.installation # <<>>
    /\ r.body.value.repository

\* every call to GitHub made so far has succeeded
GitHubCallsSucceeded ==
    \A k \in DOMAIN effects : effects[k].op # "scan" => effects[k].result = "ok"

\* the calls made, without their results
Calls == [k \in DOMAIN effects |-> <<effects[k].op, effects[k].file>>]

\* fetch and scan of each scannable file, in the order of the file list
RECURSIVE PerFile(_, _)
PerFile(fs, i) ==
    IF i > Len(fs) THEN <<>>
    ELSE (IF shouldScanFile(fs[i].filename)
          THEN << <<"content", fs[i].filename>>, <<"scan", fs[i].filename>> >>
          ELSE <<>>)
         \o PerFile(fs, i + 1)

ScanStarted ==
    /\ Len(effects) >= 2
    /\ effects[1].op = "token" /\ effects[1].result = "ok"
    /\ effects[2].op = "files" /\ effects[2].result = "ok"

\* the calls of one kind, in the order they were made
CallsOf(op) == LET Test(e) == e.op = op IN SelectSeq(effects, Test)

\* C22: when the content of a file cannot be fetched, getFileContent gives
\* null and the handler goes on: every scannable file is fetched, in order,
\* a file is scanned exactly when its content was fetched, and the comment
\* is posted last
C22_FileFailureIsolated ==
    (hookPc = "done" /\ TriggeringDelivery(req) /\ ScanStarted)
    => /\ [k \in DOMAIN CallsOf("content") |-> CallsOf("content")[k].file]
             = [k \in DOMAIN scanTargets |-> scanTargets[k].filename]
       /\ \A k \in DOMAIN effects :
             effects[k].op = "content"
             => /\ k < Len(effects)
                /\ effects[k].result \in {"ok", "failed"}
                /\ effects[k].result = "ok"
                      <=> effects[k + 1] \in
                             {Effect("scan", effects[k].file, st) :
                                 st \in {"completed", "failed"}}
       /\ \A k \in DOMAIN effects : effects[k].op = "scan" =>
             (k > 1 /\ effects[k - 1].op = "content")
       /\ Len(CallsOf("comment")) = 1
       /\ effects[Len(effects)].op = "comment"

\* the content of the first of two scannable files could not be fetched;
\* the second was scanned and the comment posted
C22_Witness ==
    /\ hookPc = "done"
    /\ TriggeringDelivery(req)
    /\ ScanStarted
    /\ Len(scanTargets) = 2
    /\ Len(effects) = 6
    /\ effects[3] = Effect("content", scanTargets[1].filename, "failed")
    /\ effects[4] = Effect("content", scanTargets[2].filename, "ok")
    /\ effects[5].op = "scan"
    /\ effects[6] = Effect("comment", NoFile, "ok")

\* the name ends, whatever the case of its letters, in one of the
\* source-code extensions
Recognized(name) ==
    \E e \in DOMAIN CODE_EXTENSIONS :
        LET ext == CODE_EXTENSIONS[e]
            n == toLowerCase(name)
        IN /\ Len(ext) <= Len(n)
           /\ \A i \in 1..Len(ext) : n[Len(n) - Len(ext) + i] = ext[i]

RecognizedFiles == {files[i].filename : i \in {j \in DOMAIN files : Recognized(files[j].filename)}}

\* the files whose content was requested, and those handed to scanCode
Fetched == {CallsOf("content")[k].file : k \in DOMAIN CallsOf("content")}
Scanned == {CallsOf("scan")[k].file : k \in DOMAIN CallsOf("scan")}

\* C25: only changed files with a recognized extension are fetched, only
\* fetched files are scanned, and when the GitHub calls of a triggered
\* delivery succeed the fetched and the scanned files are exactly the
\* changed files with a recognized extension
C25_ExactlyCodeFilesScanned ==
    /\ Fetched \subseteq RecognizedFiles
    /\ Scanned \subseteq Fetched
    /\ (hookPc = "done" /\ TriggeringDelivery(req) /\ ScanStarted
           /\ GitHubCallsSucceeded)
       => (Fetched = RecognizedFiles /\ Scanned = RecognizedFiles)

\* a pull request that changed B.PY and r.md: B.PY was fetched and
\* scanned, r.md was neither
C25_Witness ==
    /\ hookPc = "done"
    /\ TriggeringDelivery(req)
    /\ GitHubCallsSucceeded
    /\ {files[i].filename : i \in DOMAIN files}
          = {<<"B", ".", "P", "Y">>, <<"r", ".", "m", "d">>}
    /\ Fetched = {<<"B", ".", "P", "Y">>}
    /\ Scanned = {<<"B", ".", "P", "Y">>}

\* the findings of the Scans of entries i and later, counted
RECURSIVE FindingsCount(_, _)
FindingsCount(scans, i) ==
    IF i > Len(scans) THEN 0
    ELSE Len(scans[i].findings) + FindingsCount(scans, i + 1)

\* C27: the number of issues the comment of a triggered pull request shows
\* is the sum of the numbers of findings of the Scans of its files
C27_CommentReportsAllFindings ==
    (TriggeringDelivery(req) /\ comment.posted)
    => comment.total = FindingsCount(fileScans, 1)

-----------------------------------------------------------------------------
(* scanCode called again and again on one store *)

MaxScans == 3

\* the caller has its Scan and goes on to its next file, or the next
\* delivery arrives: scanCode can be called again
ScanAgain ==
    /\ pc = "returned"
    /\ nextId <= MaxScans
    /\ pc' = "idle"
    /\ UNCHANGED <<code, language, scanId, patternFindings, llmResult, aiFindings,
                   merged, scan, escaped, memoryStore, nextId>>
    /\ UNCHANGED <<llmVars, tokenVars, hookVars, readVars>>

\* the contents a delivery is scanned for: an empty file, and a file with
\* an eval call; a redelivery scans the same content again
StoreCodes == {<<>>, <<{"dangerousFunctions"}>>}

\* the LLM is down, or reports the eval call
StoreGroqAnswers ==
    {[ok |-> TRUE, riskScore |-> <<347>>,
      findings |-> [isArray |-> TRUE, items |-> <<LLMFinding(T_RCE, "medium", 1)>>]]}

NextStore ==
    \/ \E c \in StoreCodes : Call(c, javascript)
    \/ \E g \in StoreGroqAnswers : LLMResolve(TRUE, g)
    \/ LLMResolve(FALSE, GroqFail)
    \/ \E ok \in BOOLEAN : SaveResolve(ok)
    \/ ScanAgain

SpecStore == Init /\ [][NextStore]_vars

-----------------------------------------------------------------------------
(* getAllScans and getStats on the in-memory store *)

MaxStored == 3
MaxStamp == 3

\* a stored Scan: timestamp is the instant scanCode built it
StoredScan(id, timestamp, findings) ==
    [id |-> id, timestamp |-> timestamp, findings |-> findings,
     status |-> "completed"]

\* s with x placed after every element that is not older than x
RECURSIVE insertNewestFirst(_, _)
insertNewestFirst(s, x) ==
    IF s = <<>> THEN <<x>>
    ELSE IF x.timestamp - s[Len(s)].timestamp > 0
         THEN Append(insertNewestFirst(SubSeq(s, 1, Len(s) - 1), x), s[Len(s)])
         ELSE Append(s, x)

\* scans.sort((a, b) => new Date(b.timestamp) - new Date(a.timestamp)):
\* the array is sorted in place, and the sort is stable
RECURSIVE sortNewestFirst(_)
sortNewestFirst(s) ==
    IF s = <<>> THEN <<>>
    ELSE insertNewestFirst(sortNewestFirst(SubSeq(s, 1, Len(s) - 1)), s[Len(s)])

\* s.slice(0, limit)
slice(s, limit) == SubSeq(s, 1, IF limit < Len(s) THEN limit ELSE Len(s))

\* Math.round(a / b) for a >= 0 and b > 0
roundDiv(a, b) == (2 * a + b) \div (2 * b)

RECURSIVE totalFindings(_)
totalFindings(scans) ==
    IF scans = <<>> THEN 0
    ELSE Len(scans[1].findings) + totalFindings(Tail(scans))

\* getAllScans(limit) without a database
GetAllScans(limit) ==
    /\ pc = "reads"
    /\ memoryStore' = sortNewestFirst(memoryStore)
    /\ readResult' = [op |-> "getAllScans",
                      value |-> slice(sortNewestFirst(memoryStore), limit)]
    /\ UNCHANGED <<pc, code, language, scanId, patternFindings, llmResult, aiFindings,
                   merged, scan, escaped, nextId>>
    /\ UNCHANGED <<llmVars, tokenVars, hookVars>>

\* getStats() without a database: scans is memoryStore.scans itself
GetStats ==
    /\ pc = "reads"
    /\ memoryStore' = sortNewestFirst(memoryStore)
    /\ LET scans == memoryStore
           Completed(x) == x.status = "completed"
           Failed(x) == x.status = "failed"
       IN readResult' =
              [op |-> "getStats",
               value |->
                 [totalScans |-> Len(scans),
                  completedScans |-> Len(SelectSeq(scans, Completed)),
                  failedScans |-> Len(SelectSeq(scans, Failed)),
                  totalFindings |-> totalFindings(scans),
                  avgFindings |-> IF Len(scans) = 0 THEN 0
                                  ELSE roundDiv(totalFindings(scans), Len(scans)),
                  lastScan |-> IF Len(scans) > 0
                               THEN <<sortNewestFirst(scans)[1].timestamp>>
                               ELSE <<>>]]
    /\ UNCHANGED <<pc, code, language, scanId, patternFindings, llmResult, aiFindings,
                   merged, scan, escaped, nextId>>
    /\ UNCHANGED <<llmVars, tokenVars, hookVars>>

\* the default limit, and a limit shorter than the store
Limits == {1, 50}

\* the findings lists of the stored Scans
StoredFindings == {<<>>, <<PatternFinding(T_RCE, "critical", 1)>>}

\* the stores scanning leaves: the Scans were pushed in the order they
\* were built, so their timestamps do not decrease
Stores ==
    UNION {{[i \in 1..n |-> StoredScan(i, t[i], f[i])] :
               t \in {u \in [1..n -> 1..MaxStamp] :
                          \A i \in 1..(n - 1) : u[i] <= u[i + 1]},
               f \in [1..n -> StoredFindings]} :
           n \in 0..MaxStored}

InitReads ==
    /\ pc = "reads"
    /\ memoryStore \in Stores
    /\ nextId = Len(memoryStore) + 1
    /\ code = <<>>
    /\ language = javascript
    /\ scanId = 0
    /\ patternFindings = NoFindings
    /\ llmResult = LLMNone
    /\ aiFindings = NoFindings
    /\ merged = NoFindings
    /\ scan = FailedScan(0)
    /\ escaped = FALSE
    /\ LLMIdle
    /\ TokenIdle
    /\ HookIdle
    /\ ReadIdle

NextReads ==
    \/ \E limit \in Limits : GetAllScans(limit)
    \/ GetStats

SpecReads == InitReads /\ [][NextReads]_vars

-----------------------------------------------------------------------------
(* Properties of scanCode and the scans store, checked under Spec *)

\* the Scan of the call in flight is in the store
Persisted == \E i \in DOMAIN memoryStore : memoryStore[i].id = scan.id

\* C23: scanCode does not throw when the insert into the store throws, and
\* the Scan it returns without having persisted it has status "failed"
C23_SaveFailureReturnsFailed ==
    Returned =>
        /\ ~escaped
        /\ ~Persisted => scan.status = "failed"

\* C24: the findings quickPatternScan returns are in ascending line order
C24_PatternFindingsInLineOrder ==
    \A i, j \in DOMAIN patternFindings :
        i < j => patternFindings[i].line <= patternFindings[j].line

\* the ids of the stored Scans
StoredIds == {memoryStore[i].id : i \in DOMAIN memoryStore}

\* C26: under scanning the store only grows at its end, by records with a
\* new id, and the step by which a scanCode call completes inserts exactly
\* its Scan: no stored record is changed or removed, and scanning the same
\* content again adds another record
C26_StoreAppendOnly ==
    [][/\ \/ memoryStore' = memoryStore
          \/ /\ Len(memoryStore') = Len(memoryStore) + 1
             /\ SubSeq(memoryStore', 1, Len(memoryStore)) = memoryStore
             /\ memoryStore'[Len(memoryStore')].id \notin StoredIds
       /\ (pc # "returned" /\ pc' = "returned" /\ scan'.status = "completed")
          => memoryStore' = Append(memoryStore, scan')]_vars

\* analyzeCode gave no provider's result, or a result with an entry that
\* has no type
DegradedLLM ==
    \/ llmResult.provider = "none"
    \/ \E i \in DOMAIN aiFindings : aiFindings[i].type = Undefined

\* C28: when the LLM gives no result or a result with malformed entries,
\* scanCode on non-empty code returns status "completed", and every
\* pattern finding is in the Scan unless an LLM finding covers it
C28_DegradedLLMNeverAborts ==
    (Returned /\ code # <<>> /\ language # Null /\ DegradedLLM)
    => /\ scan.status = "completed"
       /\ \A i \in DOMAIN patternFindings :
             \/ Core(patternFindings[i]) \in Range(Cores(scan.findings))
             \/ Covered(patternFindings[i], aiFindings)

-----------------------------------------------------------------------------
(* The taxonomy in mergeFindings, checked under SpecMerge *)

\* the LLM findings within two lines of pf
Near(pf, ai) == {j \in DOMAIN ai : abs(ai[j].line - pf.line) <= 2}

\* C29: a pattern finding typed SQL_INJECTION stays in the merged list
\* when every LLM finding within two lines of it is typed RCE, and a
\* pattern finding typed RCE stays when every such LLM finding is typed
\* SQL_INJECTION
C29_DistinctCategoriesNotMerged ==
    pc = "merged" =>
        \A i \in DOMAIN patternFindings :
            LET pf == patternFindings[i] IN
            ( \/ /\ pf.type = T_SQL_INJECTION
                 /\ \A j \in Near(pf, aiFindings) : aiFindings[j].type = T_RCE
              \/ /\ pf.type = T_RCE
                 /\ \A j \in Near(pf, aiFindings) :
                       aiFindings[j].type = T_SQL_INJECTION )
            => pushed(pf) \in Range(merged)

-----------------------------------------------------------------------------
(* The store under reads, checked under SpecReads *)

\* C30: with the in-memory store, getAllScans(limit) and getStats() leave
\* the list of stored scans as it was: the same scans in the same order
C30_ReadsLeaveStoreUnchanged ==
    [][memoryStore' = memoryStore]_vars

====
